---- MODULE Spec2Model ----
(***************************************************************************)
(* Resilient outbound-call layer of Nestera's backend:                     *)
(*   - RpcClientWrapper (rpc-client.wrapper.ts): retry with backoff and    *)
(*     failover over a pool of endpoints, with a sticky index per client   *)
(*     type;                                                               *)
(*   - HospitalIntegrationService (hospital-integration.service.ts): a     *)
(*     circuit breaker per hospital around an HTTP request with retries.   *)
(* JavaScript runs each callback to completion, so one action is the code  *)
(* executed between two awaits (or between two emissions of the pipe).     *)
(***************************************************************************)
EXTENDS Integers, Sequences, FiniteSets, TLC

\* ------------------------------------------------------------------ bounds
MaxPool == 3
MaxHorizonPool == 1
MaxRetries == 2
MaxThreshold == 3
MaxHttpRetries == 1
CoolDownTicks == 2
MaxTime == 6
MaxBackoffPool == 2
MaxBackoffRetries == 4
MaxHospitalRetries == 3
MaxSortLen == 3
MaxPriority == 2
MaxAbandoned == 2

\* ------------------------------------------------- constants of the program
DefaultRetryDelay == 1000
HospitalRetryDelay == 1000

Callers == {"c1", "c2"}
ClientTypes == {"rpc", "horizon"}

VARIABLES
    abandoned,            \* the operations whose withTimeout race was lost and
                          \* which are still pending (ops), in an environment
                          \* where such operations settle later or hang for ever
                          \* (settles)
    passedIn,             \* history: the two arrays as they were handed to the
                          \* constructor, before it sorted them in place
    rpcEndpoints,         \* RpcClientWrapper.rpcEndpoints (sorted by the constructor)
    horizonEndpoints,     \* RpcClientWrapper.horizonEndpoints
    retryConfig,          \* RpcClientWrapper.retryConfig
    currentRpcIndex,      \* RpcClientWrapper.currentRpcIndex
    currentHorizonIndex,  \* RpcClientWrapper.currentHorizonIndex
    calls,                \* the locals of each caller's executeWithRetry call
    lastSuccess,          \* history: per client type, the pool index of the most
                          \* recent successful attempt (-1: none yet)
    circuitBreakers,      \* HospitalIntegrationService.circuitBreakers (a Map)
    hospitalConfig,       \* maxRetries, retryDelay, circuitBreakerThreshold,
                          \* circuitBreakerTimeout read by the constructor
    now,                  \* Date.now(), in ticks
    requests,             \* each caller's guarded request (makeRequest pipe)
    consecutiveFailures   \* history: per hospital, the failed guarded calls since
                          \* the last successful one (or reset)

rpcVars == <<abandoned, passedIn, rpcEndpoints, horizonEndpoints, retryConfig, currentRpcIndex,
             currentHorizonIndex, calls, lastSuccess>>
hospitalVars == <<circuitBreakers, hospitalConfig, now, requests, consecutiveFailures>>
vars == <<rpcVars, hospitalVars>>

\* --------------------------------------------------------- pure helpers
RECURSIVE Pow2(_)
Pow2(n) == IF n = 0 THEN 1 ELSE 2 * Pow2(n - 1)

\* Array.prototype.sort((a, b) => a.priority - b.priority): a stable sort.
RECURSIVE InsertByPriority(_, _)
InsertByPriority(s, e) ==
    IF s = <<>> THEN <<e>>
    ELSE IF e.priority < Head(s).priority THEN <<e>> \o s
    ELSE <<Head(s)>> \o InsertByPriority(Tail(s), e)

\* Mutant: the constructor keeps the arrays in the order given.
KeepsGivenOrder(s) == s

RECURSIVE SortByPriority(_)
SortByPriority(s) ==
    IF s = <<>> THEN <<>>
    ELSE InsertByPriority(SortByPriority(SubSeq(s, 1, Len(s) - 1)), s[Len(s)])

\* An endpoint list as configuration hands it over: n endpoints of one type,
\* url k at position k, given in descending priority so that the constructor's
\* sort has to reorder it.
EndpointList(type, n) ==
    [k \in 1..n |-> [url |-> k, priority |-> n - k, type |-> type]]

\* The endpoint lists configuration can hand over: up to maxLen endpoints of
\* one type in any order of priorities, equal priorities included; url k is
\* the endpoint given at position k.
GivenLists(type, maxLen, maxPriority) ==
    UNION {{[k \in 1..n |-> [url |-> k, priority |-> f[k], type |-> type]] :
               f \in [1..n -> 0..maxPriority]} : n \in 0..maxLen}

\* ------------------------------------------------- RpcClientWrapper
Endpoints(clientType) ==
    IF clientType = "rpc" THEN rpcEndpoints ELSE horizonEndpoints

\* Mutant: both client types read the rpc index.
CurrentIndexShared(clientType) == currentRpcIndex

CurrentIndex(clientType) ==
    IF clientType = "rpc" THEN currentRpcIndex ELSE currentHorizonIndex

\* Mutant: the pool index does not wrap around.
EndpointIndexNoWrap(currentIndex, i, n) == currentIndex + i

\* Mutant: every call starts at the primary endpoint, the sticky index ignored.
EndpointIndexFromPrimary(currentIndex, i, n) == i % n

\* const endpointIndex = (currentIndex + i) % endpoints.length
EndpointIndex(currentIndex, i, n) == (currentIndex + i) % n

\* if (retry < this.retryConfig.maxRetries - 1)
SleepsBeforeRetry(retry, maxRetries) == retry < maxRetries - 1

\* Mutant: the delay grows linearly with the retry index.
BackoffDelayLinear(retryDelay, retry) == retryDelay * (retry + 1)

\* const delay = this.retryConfig.retryDelay * Math.pow(2, retry)
BackoffDelay(retryDelay, retry) == retryDelay * Pow2(retry)

\* Mutant: one attempt too many on each endpoint.
RetryLoopOffByOne(retry, maxRetries) == retry <= maxRetries

\* for (let retry = 0; retry < this.retryConfig.maxRetries; retry++)
RetryLoopContinues(retry, maxRetries) == retry < maxRetries

\* Mutant: the last endpoint of the pool is never tried.
EndpointLoopSkipsLast(i, n) == i < n - 1

\* for (let i = 0; i < endpoints.length; i++)
EndpointLoopContinues(i, n) == i < n

\* No error thrown (yet).
NoError == [name |-> "none", detail |-> "none"]

\* throw new Error(`No ${clientType} endpoints configured`)
NoEndpointsError(clientType) == [name |-> "NoEndpoints", detail |-> clientType]

\* throw new Error(`All ${clientType} RPC endpoints failed:
\*                  ${lastError?.message || 'Unknown error'}`): an Error whose
\* only content is this message.
AllFailedError(lastError) ==
    [name |-> "AllFailed",
     detail |-> IF lastError = "null" THEN "Unknown error" ELSE lastError]

\* (invoked, slept and lastOutcome are history: the endpoint of every
\* invocation, the delay of every sleep, the outcome of the latest attempt;
\* error is the Error the call threw, criticalLog the attempt count written by
\* the CRITICAL log line, 0 while there is none.)
NoCall ==
    [pc |-> "idle", clientType |-> "rpc", currentIndex |-> 0, i |-> 0,
     retry |-> 0, endpointIndex |-> 0, attemptCount |-> 0,
     lastError |-> "null", invoked |-> <<>>, slept |-> <<>>, result |-> "none",
     lastOutcome |-> "none", error |-> NoError, criticalLog |-> 0]

\* attemptCount++; ... await this.withTimeout(operation(client), timeoutMs):
\* the operation is invoked on the endpoint of this iteration, and the call
\* suspends on the race between the operation and the timer.
StartAttempt(r) ==
    [r EXCEPT !.attemptCount = @ + 1,
              !.invoked = Append(@, r.endpointIndex),
              !.pc = "awaiting"]

\* Mutant: each iteration reads the sticky index again instead of using the
\* value read at the start of the call.
EnterEndpointFromLiveIndex(r, i, n) ==
    IF EndpointLoopContinues(i, n)
    THEN StartAttempt([r EXCEPT !.i = i, !.retry = 0,
                                !.endpointIndex =
                                    EndpointIndex(CurrentIndex(r.clientType), i, n)])
    ELSE [r EXCEPT !.i = i, !.pc = "thrown", !.result = "AllFailed",
                   !.criticalLog = r.attemptCount,
                   !.error = AllFailedError(r.lastError)]

\* Entering iteration i of the endpoint loop, or leaving the loop: the
\* endpoint of the iteration is chosen, the retry loop starts at 0; after the
\* last endpoint the 'All ... RPC endpoints failed' error is thrown.
EnterEndpoint(r, i, n) ==
    IF EndpointLoopContinues(i, n)
    THEN StartAttempt([r EXCEPT !.i = i, !.retry = 0,
                                !.endpointIndex = EndpointIndex(r.currentIndex, i, n)])
    ELSE [r EXCEPT !.i = i, !.pc = "thrown", !.result = "AllFailed",
                   !.criticalLog = r.attemptCount,
                   !.error = AllFailedError(r.lastError)]

\* The retry loop's increment and test after a failed attempt whose backoff
\* (if any) is over.
NextRetry(r, n) ==
    IF RetryLoopContinues(r.retry + 1, retryConfig.maxRetries)
    THEN StartAttempt([r EXCEPT !.retry = @ + 1])
    ELSE EnterEndpoint([r EXCEPT !.retry = @ + 1], r.i + 1, n)

\* Mutant: the pool is not tested for emptiness before the loops.
executeWithRetryUnguarded(c, clientType) ==
    /\ calls[c].pc \in {"idle", "returned", "thrown"}
    /\ LET r == [NoCall EXCEPT !.clientType = clientType,
                               !.currentIndex = CurrentIndex(clientType)]
       IN  calls' = [calls EXCEPT ![c] =
               EnterEndpoint(r, 0, Len(Endpoints(clientType)))]
    /\ UNCHANGED <<abandoned, passedIn, rpcEndpoints, horizonEndpoints, retryConfig, currentRpcIndex,
                   currentHorizonIndex, lastSuccess, hospitalVars>>

\* executeWithRetry up to its first await.
executeWithRetry(c, clientType) ==
    /\ calls[c].pc \in {"idle", "returned", "thrown"}
    /\ LET endpoints == Endpoints(clientType)
           r == [NoCall EXCEPT !.clientType = clientType,
                               !.currentIndex = CurrentIndex(clientType)]
       IN  calls' = [calls EXCEPT ![c] =
               IF Len(endpoints) = 0
               THEN [r EXCEPT !.pc = "thrown", !.result = "NoEndpoints",
                              !.error = NoEndpointsError(clientType)]
               ELSE EnterEndpoint(r, 0, Len(endpoints))]
    /\ UNCHANGED <<abandoned, passedIn, rpcEndpoints, horizonEndpoints, retryConfig, currentRpcIndex,
                   currentHorizonIndex, lastSuccess, hospitalVars>>

\* Mutant: the loop offset is stored instead of the pool index.
IndexOnSuccessIsOffset(r) == r.i

\* The index a successful attempt stores in the sticky index of its type.
IndexOnSuccess(r) == r.endpointIndex

\* The operation's promise resolves before the timer: lines 421-435.
OperationResolves(c) ==
    /\ calls[c].pc = "awaiting"
    /\ LET r == calls[c] IN
        /\ currentRpcIndex' =
              IF r.clientType = "rpc" THEN IndexOnSuccess(r) ELSE currentRpcIndex
        /\ currentHorizonIndex' =
              IF r.clientType = "rpc" THEN currentHorizonIndex ELSE IndexOnSuccess(r)
        /\ lastSuccess' = [lastSuccess EXCEPT ![r.clientType] = r.endpointIndex]
        /\ calls' = [calls EXCEPT ![c] =
               [r EXCEPT !.pc = "returned", !.result = "ok", !.lastOutcome = "ok"]]
    /\ UNCHANGED <<abandoned, passedIn, rpcEndpoints, horizonEndpoints, retryConfig, hospitalVars>>

\* getEndpointsStatus(): the arrays themselves, the sticky indexes and the
\* url at each index (0: undefined, the index being outside the array).
getEndpointsStatus ==
    [rpc |-> [endpoints |-> rpcEndpoints,
              currentIndex |-> currentRpcIndex,
              currentUrl |-> IF currentRpcIndex < Len(rpcEndpoints)
                             THEN rpcEndpoints[currentRpcIndex + 1].url ELSE 0],
     horizon |-> [endpoints |-> horizonEndpoints,
                  currentIndex |-> currentHorizonIndex,
                  currentUrl |-> IF currentHorizonIndex < Len(horizonEndpoints)
                                 THEN horizonEndpoints[currentHorizonIndex + 1].url
                                 ELSE 0]]

\* Mutant: the first error of the call is kept, later ones are dropped.
LastErrorKeepsFirst(lastError, error) ==
    IF lastError = "null" THEN error ELSE lastError

\* lastError = error as Error
LastErrorAfter(lastError, error) == error

\* Mutant: failing over stores the index of the endpoint the call moves to.
CatchMovesCursor(c, error) ==
    LET r == [calls[c] EXCEPT !.lastError = error, !.lastOutcome = error]
        n == Len(Endpoints(r.clientType))
        q == IF SleepsBeforeRetry(r.retry, retryConfig.maxRetries)
             THEN [r EXCEPT !.slept = Append(@, BackoffDelay(retryConfig.retryDelay, r.retry)),
                            !.pc = "sleeping"]
             ELSE NextRetry(r, n)
    IN  /\ calls' = [calls EXCEPT ![c] = q]
        /\ currentRpcIndex' =
              IF r.clientType = "rpc" /\ q.pc = "awaiting"
              THEN q.endpointIndex ELSE currentRpcIndex
        /\ currentHorizonIndex' =
              IF r.clientType = "horizon" /\ q.pc = "awaiting"
              THEN q.endpointIndex ELSE currentHorizonIndex
        /\ UNCHANGED <<passedIn, rpcEndpoints, horizonEndpoints, retryConfig, lastSuccess,
                       hospitalVars>>

\* The catch block, lines 436-448, and what follows it synchronously.
Catch(c, error) ==
    LET r == [calls[c] EXCEPT !.lastError = LastErrorAfter(@, error),
                              !.lastOutcome = error]
        n == Len(Endpoints(r.clientType))
    IN  /\ calls' = [calls EXCEPT ![c] =
              IF SleepsBeforeRetry(r.retry, retryConfig.maxRetries)
              THEN [r EXCEPT !.slept = Append(@, BackoffDelay(retryConfig.retryDelay, r.retry)),
                             !.pc = "sleeping"]
              ELSE NextRetry(r, n)]
        /\ UNCHANGED <<passedIn, rpcEndpoints, horizonEndpoints, retryConfig, currentRpcIndex,
                       currentHorizonIndex, lastSuccess, hospitalVars>>

\* The operation's promise rejects before the timer.
OperationRejects(c) ==
    /\ calls[c].pc = "awaiting"
    /\ Catch(c, "error")
    /\ UNCHANGED abandoned

\* Promise.race has rejected on the timer: the operation's promise, which
\* nothing cancels, stays pending in the background (where the environment
\* lets such operations settle at all).
Abandon(c) ==
    IF abandoned.settles
    THEN [abandoned EXCEPT !.ops = Append(@, [clientType |-> calls[c].clientType,
                                              endpointIndex |-> calls[c].endpointIndex])]
    ELSE abandoned

\* Mutant: a timeout gives the endpoint up, its remaining retries skipped.
TimeoutAbandonsEndpoint(c) ==
    /\ calls[c].pc = "awaiting"
    /\ LET r == [calls[c] EXCEPT !.lastError = "timeout", !.lastOutcome = "timeout"]
       IN  calls' = [calls EXCEPT ![c] =
               EnterEndpoint(r, r.i + 1, Len(Endpoints(r.clientType)))]
    /\ abandoned' = Abandon(c)
    /\ UNCHANGED <<passedIn, rpcEndpoints, horizonEndpoints, retryConfig, currentRpcIndex,
                   currentHorizonIndex, lastSuccess, hospitalVars>>

\* Mutant: the awaited operation is not raced against a timer.
TimerNeverFires(c) ==
    /\ calls[c].pc = "awaiting"
    /\ FALSE
    /\ UNCHANGED vars

\* withTimeout: the timer fires before the operation settles.
TimeoutFires(c) ==
    /\ calls[c].pc = "awaiting"
    /\ abandoned.settles => Len(abandoned.ops) < MaxAbandoned
    /\ abandoned' = Abandon(c)
    /\ Catch(c, "timeout")

\* Mutant: an abandoned operation that resolves is handled like the awaited
\* one, storing its endpoint's index.
AbandonedSettlesIntoIndex(k, outcome) ==
    /\ k \in 1..Len(abandoned.ops)
    /\ abandoned' = [abandoned EXCEPT !.ops =
                        SubSeq(@, 1, k - 1) \o SubSeq(@, k + 1, Len(@))]
    /\ LET op == abandoned.ops[k] IN
        /\ currentRpcIndex' =
              IF outcome = "resolves" /\ op.clientType = "rpc"
              THEN op.endpointIndex ELSE currentRpcIndex
        /\ currentHorizonIndex' =
              IF outcome = "resolves" /\ op.clientType = "horizon"
              THEN op.endpointIndex ELSE currentHorizonIndex
    /\ UNCHANGED <<passedIn, rpcEndpoints, horizonEndpoints, retryConfig, calls,
                   lastSuccess, hospitalVars>>

\* An operation abandoned by withTimeout settles: the race it was part of
\* has rejected already, so its value or error goes nowhere.
AbandonedSettles(k, outcome) ==
    /\ k \in 1..Len(abandoned.ops)
    /\ abandoned' = [abandoned EXCEPT !.ops =
                        SubSeq(@, 1, k - 1) \o SubSeq(@, k + 1, Len(@))]
    /\ UNCHANGED <<passedIn, rpcEndpoints, horizonEndpoints, retryConfig,
                   currentRpcIndex, currentHorizonIndex, calls, lastSuccess,
                   hospitalVars>>

\* await this.sleep(delay) is over.
SleepEnds(c) ==
    /\ calls[c].pc = "sleeping"
    /\ calls' = [calls EXCEPT ![c] =
           NextRetry(calls[c], Len(Endpoints(calls[c].clientType)))]
    /\ UNCHANGED <<abandoned, passedIn, rpcEndpoints, horizonEndpoints, retryConfig, currentRpcIndex,
                   currentHorizonIndex, lastSuccess, hospitalVars>>

\* ------------------------------------------- HospitalIntegrationService
Hospitals == {"hospital-1"}

\* The Map has no entry for the key.
NoEntry == [state |-> "ABSENT"]

\* The entry getCircuitBreakerState and resetCircuitBreaker store.
ClosedBreaker == [failures |-> 0, lastFailureTime |-> 0, state |-> "CLOSED"]

\* getCircuitBreakerState: the Map after the lookup, which stores an entry
\* when there is none.
getCircuitBreakerState(map, hospitalId) ==
    IF map[hospitalId] = NoEntry
    THEN [map EXCEPT ![hospitalId] = ClosedBreaker]
    ELSE map

\* Mutant: the call arriving exactly at the end of the cool-down is let through.
CoolDownElapsedAtEquality(timeSinceLastFailure, circuitBreakerTimeout) ==
    timeSinceLastFailure >= circuitBreakerTimeout

\* if (timeSinceLastFailure > this.circuitBreakerTimeout)
CoolDownElapsed(timeSinceLastFailure, circuitBreakerTimeout) ==
    timeSinceLastFailure > circuitBreakerTimeout

\* Mutant: a rejected call restarts the cool-down.
checkCircuitBreakerRestartsCoolDown(state, dateNow) ==
    IF state.state = "OPEN"
    THEN IF CoolDownElapsed(dateNow - state.lastFailureTime,
                            hospitalConfig.circuitBreakerTimeout)
         THEN [entry |-> [state EXCEPT !.state = "HALF_OPEN", !.failures = 0],
               throws |-> FALSE]
         ELSE [entry |-> [state EXCEPT !.lastFailureTime = dateNow], throws |-> TRUE]
    ELSE [entry |-> state, throws |-> FALSE]

\* Mutant: a rejected call counts as one more failure of the hospital.
checkCircuitBreakerCountsRejection(state, dateNow) ==
    IF state.state = "OPEN"
    THEN IF CoolDownElapsed(dateNow - state.lastFailureTime,
                            hospitalConfig.circuitBreakerTimeout)
         THEN [entry |-> [state EXCEPT !.state = "HALF_OPEN", !.failures = 0],
               throws |-> FALSE]
         ELSE [entry |-> [state EXCEPT !.failures = @ + 1, !.lastFailureTime = dateNow],
               throws |-> TRUE]
    ELSE [entry |-> state, throws |-> FALSE]

\* checkCircuitBreaker on an entry: the entry it leaves and whether it
\* throws the 503 'Circuit breaker is OPEN' exception.
checkCircuitBreaker(state, dateNow) ==
    IF state.state = "OPEN"
    THEN IF CoolDownElapsed(dateNow - state.lastFailureTime,
                            hospitalConfig.circuitBreakerTimeout)
         THEN [entry |-> [state EXCEPT !.state = "HALF_OPEN", !.failures = 0],
               throws |-> FALSE]
         ELSE [entry |-> state, throws |-> TRUE]
    ELSE [entry |-> state, throws |-> FALSE]

\* Mutant: a success closes the breaker whatever its state.
recordSuccessClosesAlways(state) == [state EXCEPT !.state = "CLOSED", !.failures = 0]

\* Mutant: a success closes a HALF_OPEN breaker and leaves the count alone.
recordSuccessKeepsCount(state) ==
    IF state.state = "HALF_OPEN" THEN [state EXCEPT !.state = "CLOSED"] ELSE state

\* Mutant: a success resets the count and leaves the state alone.
recordSuccessKeepsState(state) == [state EXCEPT !.failures = 0]

\* recordSuccess on an entry.
recordSuccess(state) ==
    [(IF state.state = "HALF_OPEN" THEN [state EXCEPT !.state = "CLOSED"] ELSE state)
        EXCEPT !.failures = 0]

\* Mutant: the breaker opens one failure late.
ThresholdExceeded(failures, circuitBreakerThreshold) ==
    failures > circuitBreakerThreshold

\* if (state.failures >= this.circuitBreakerThreshold)
ThresholdReached(failures, circuitBreakerThreshold) ==
    failures >= circuitBreakerThreshold

\* Mutant: a failure recorded while OPEN keeps the time of the failure that
\* opened the breaker.
recordFailureKeepsOpeningTime(state, dateNow) ==
    LET counted == [state EXCEPT !.failures = @ + 1,
                                 !.lastFailureTime =
                                     IF state.state = "OPEN" THEN @ ELSE dateNow]
    IN  IF ThresholdReached(counted.failures, hospitalConfig.circuitBreakerThreshold)
        THEN [counted EXCEPT !.state = "OPEN"]
        ELSE counted

\* recordFailure on an entry.
recordFailure(state, dateNow) ==
    LET counted == [state EXCEPT !.failures = @ + 1, !.lastFailureTime = dateNow]
    IN  IF ThresholdReached(counted.failures, hospitalConfig.circuitBreakerThreshold)
        THEN [counted EXCEPT !.state = "OPEN"]
        ELSE counted

\* An error value: its class, its code, and the status and body of the HTTP
\* response it holds (0 and "": none, both falsy in JavaScript); for an
\* HttpException, the status and response it was built with.
NoException == [class |-> "none", code |-> "", status |-> 0, data |-> ""]

\* throw new HttpException('Circuit breaker is OPEN for hospital ...',
\*                         HttpStatus.SERVICE_UNAVAILABLE)
CircuitOpenException ==
    [class |-> "HttpException", code |-> "", status |-> 503,
     data |-> "Circuit breaker is OPEN"]

\* (admitted and rawError are history: the breaker's state as the call was
\* let through, the error that reached catchError; thrown is the exception
\* the call rejected with.)
NoRequest ==
    [pc |-> "idle", hospitalId |-> "hospital-1", retryCount |-> 0, httpCalls |-> 0,
     delays |-> <<>>, admitted |-> "no", result |-> "none",
     rawError |-> NoException, thrown |-> NoException]

\* makeRequest up to the subscription of the pipe by firstValueFrom (called
\* by fetchClaimData, verifyClaimWithHospital and fetchPatientHistory for a
\* configured hospital): checkCircuitBreaker, then the first HTTP GET.
makeRequest(c, hospitalId) ==
    /\ requests[c].pc \in {"idle", "done", "failed"}
    /\ LET map == getCircuitBreakerState(circuitBreakers, hospitalId)
           chk == checkCircuitBreaker(map[hospitalId], now)
           r == [NoRequest EXCEPT !.hospitalId = hospitalId]
       IN  /\ circuitBreakers' = [map EXCEPT ![hospitalId] = chk.entry]
           /\ requests' = [requests EXCEPT ![c] =
                  IF chk.throws
                  THEN [r EXCEPT !.pc = "failed", !.result = "CircuitOpen",
                                 !.thrown = CircuitOpenException]
                  ELSE [r EXCEPT !.pc = "http", !.httpCalls = 1,
                                 !.admitted = chk.entry.state]]
    /\ UNCHANGED <<hospitalConfig, now, consecutiveFailures, rpcVars>>

\* The GET emits a response: map() runs recordSuccess and the value is
\* delivered.
HttpResponds(c) ==
    /\ requests[c].pc = "http"
    /\ LET h == requests[c].hospitalId
           map == getCircuitBreakerState(circuitBreakers, h)
       IN  /\ circuitBreakers' = [map EXCEPT ![h] = recordSuccess(map[h])]
           /\ consecutiveFailures' = [consecutiveFailures EXCEPT ![h] = 0]
    /\ requests' = [requests EXCEPT ![c] = [@ EXCEPT !.pc = "done", !.result = "ok"]]
    /\ UNCHANGED <<hospitalConfig, now, rpcVars>>

\* The errors of the pipe: the AxiosError of a request axios aborted on its
\* own timeout, the TimeoutError of timeout(requestTimeout), and the
\* AxiosError of a 500 and of a 503 response of the hospital.
HttpErrors ==
    {[class |-> "AxiosError", code |-> "ECONNABORTED", status |-> 0, data |-> ""],
     [class |-> "TimeoutError", code |-> "", status |-> 0, data |-> ""],
     [class |-> "AxiosError", code |-> "ERR_BAD_RESPONSE", status |-> 500,
      data |-> "hospital response"],
     [class |-> "AxiosError", code |-> "ERR_BAD_RESPONSE", status |-> 503,
      data |-> "hospital response"]}

\* What catchError rethrows for an error of the pipe, by kind.
SurfacedError(error) ==
    IF error.code = "ECONNABORTED" THEN "RequestTimeout" ELSE "ExternalServiceError"

\* Mutant: every error of the hospital is surfaced as 502 Bad Gateway.
SurfacedExceptionBadGateway(error) ==
    IF error.code = "ECONNABORTED"
    THEN [class |-> "HttpException", code |-> "", status |-> 408,
          data |-> "Request timeout"]
    ELSE [class |-> "HttpException", code |-> "", status |-> 502,
          data |-> IF error.data = "" THEN "External service error" ELSE error.data]

\* The HttpException catchError rethrows: 'Request timeout' with 408 for
\* code ECONNABORTED, else error.response?.data || 'External service error'
\* with error.response?.status || HttpStatus.BAD_GATEWAY.
SurfacedException(error) ==
    IF error.code = "ECONNABORTED"
    THEN [class |-> "HttpException", code |-> "", status |-> 408,
          data |-> "Request timeout"]
    ELSE [class |-> "HttpException", code |-> "",
          status |-> IF error.status = 0 THEN 502 ELSE error.status,
          data |-> IF error.data = "" THEN "External service error" ELSE error.data]

\* The GET errors, or timeout(requestTimeout) fires: retry() resubscribes
\* after timer(retryDelay * retryCount) while retries are left; after that
\* the error reaches catchError, which runs recordFailure and rethrows.
HttpFails(c, error) ==
    /\ requests[c].pc = "http"
    /\ LET r == requests[c]
           h == r.hospitalId
           map == getCircuitBreakerState(circuitBreakers, h)
       IN  IF r.retryCount < hospitalConfig.maxRetries
           THEN /\ requests' = [requests EXCEPT ![c] =
                       [r EXCEPT !.retryCount = @ + 1,
                                 !.delays = Append(@, hospitalConfig.retryDelay * (r.retryCount + 1)),
                                 !.pc = "backoff"]]
                /\ UNCHANGED <<circuitBreakers, consecutiveFailures>>
           ELSE /\ circuitBreakers' = [map EXCEPT ![h] = recordFailure(map[h], now)]
                /\ consecutiveFailures' = [consecutiveFailures EXCEPT ![h] = @ + 1]
                /\ requests' = [requests EXCEPT ![c] =
                       [r EXCEPT !.pc = "failed", !.result = SurfacedError(error),
                                 !.rawError = error,
                                 !.thrown = SurfacedException(error)]]
    /\ UNCHANGED <<hospitalConfig, now, rpcVars>>

\* The retry timer fires: the source is subscribed again, a new GET is sent.
RetryTimerFires(c) ==
    /\ requests[c].pc = "backoff"
    /\ requests' = [requests EXCEPT ![c] =
           [@ EXCEPT !.httpCalls = @ + 1, !.pc = "http"]]
    /\ UNCHANGED <<circuitBreakers, hospitalConfig, now, consecutiveFailures, rpcVars>>

\* Mutant: the status read runs the check of the cool-down first.
CircuitBreakerStatusChecked(map, hospitalId) ==
    checkCircuitBreaker(getCircuitBreakerState(map, hospitalId)[hospitalId], now).entry

\* return this.getCircuitBreakerState(hospitalId): the entry of the Map, as
\* it is, created CLOSED when there is none.
CircuitBreakerStatus(map, hospitalId) ==
    getCircuitBreakerState(map, hospitalId)[hospitalId]

\* getCircuitBreakerStatus: the entry it returns is the one the Map holds
\* after the call.
getCircuitBreakerStatus(hospitalId) ==
    /\ circuitBreakers' = [circuitBreakers EXCEPT ![hospitalId] =
                              CircuitBreakerStatus(circuitBreakers, hospitalId)]
    /\ UNCHANGED <<hospitalConfig, now, requests, consecutiveFailures, rpcVars>>

\* Mutant: the reset clears the count of the entry and keeps its state.
resetFailuresOnly(hospitalId) ==
    /\ circuitBreakers' =
           [getCircuitBreakerState(circuitBreakers, hospitalId)
               EXCEPT ![hospitalId] = [@ EXCEPT !.failures = 0]]
    /\ consecutiveFailures' = [consecutiveFailures EXCEPT ![hospitalId] = 0]
    /\ UNCHANGED <<hospitalConfig, now, requests, rpcVars>>

\* resetCircuitBreaker
resetCircuitBreaker(hospitalId) ==
    /\ circuitBreakers' = [circuitBreakers EXCEPT ![hospitalId] = ClosedBreaker]
    /\ consecutiveFailures' = [consecutiveFailures EXCEPT ![hospitalId] = 0]
    /\ UNCHANGED <<hospitalConfig, now, requests, rpcVars>>

\* Time passes.
Tick ==
    /\ now < MaxTime
    /\ now' = now + 1
    /\ UNCHANGED <<circuitBreakers, hospitalConfig, requests, consecutiveFailures, rpcVars>>

\* ------------------------------------------------------- specifications
\* new RpcClientWrapper(rpcEndpoints, horizonEndpoints, retryConfig)
RpcInit ==
    /\ abandoned = [settles |-> FALSE, ops |-> <<>>]
    /\ \E n \in 0..MaxPool, k \in 0..MaxHorizonPool :
           passedIn = [rpc |-> EndpointList("rpc", n),
                       horizon |-> EndpointList("horizon", k)]
    /\ rpcEndpoints = SortByPriority(passedIn.rpc)
    /\ horizonEndpoints = SortByPriority(passedIn.horizon)
    /\ \E m \in 1..MaxRetries :
           retryConfig = [maxRetries |-> m, retryDelay |-> DefaultRetryDelay]
    /\ currentRpcIndex = 0
    /\ currentHorizonIndex = 0
    /\ calls = [c \in Callers |-> NoCall]
    /\ lastSuccess = [t \in ClientTypes |-> -1]

\* new HospitalIntegrationService(httpService, configService)
HospitalInit ==
    /\ circuitBreakers = [h \in Hospitals |-> NoEntry]
    /\ \E t \in 1..MaxThreshold :
           hospitalConfig = [maxRetries |-> MaxHttpRetries,
                             retryDelay |-> HospitalRetryDelay,
                             circuitBreakerThreshold |-> t,
                             circuitBreakerTimeout |-> CoolDownTicks]
    /\ now = 1
    /\ requests = [c \in Callers |-> NoRequest]
    /\ consecutiveFailures = [h \in Hospitals |-> 0]

\* The wrapper alone: the service is constructed with one configuration and
\* never called.
Init ==
    /\ RpcInit
    /\ HospitalInit
    /\ hospitalConfig.circuitBreakerThreshold = 1

Next ==
    \/ \E c \in Callers, t \in ClientTypes : executeWithRetry(c, t)
    \/ \E c \in Callers : OperationResolves(c)
    \/ \E c \in Callers : OperationRejects(c)
    \/ \E c \in Callers : TimeoutFires(c)
    \/ \E c \in Callers : SleepEnds(c)

Spec == Init /\ [][Next]_vars

\* The wrapper used by one caller at a time, with longer retry loops.
BackoffInit ==
    /\ abandoned = [settles |-> FALSE, ops |-> <<>>]
    /\ HospitalInit
    /\ hospitalConfig.circuitBreakerThreshold = 1
    /\ \E n \in 0..MaxBackoffPool, k \in 0..MaxHorizonPool :
           passedIn = [rpc |-> EndpointList("rpc", n),
                       horizon |-> EndpointList("horizon", k)]
    /\ rpcEndpoints = SortByPriority(passedIn.rpc)
    /\ horizonEndpoints = SortByPriority(passedIn.horizon)
    /\ \E m \in 1..MaxBackoffRetries :
           retryConfig = [maxRetries |-> m, retryDelay |-> DefaultRetryDelay]
    /\ currentRpcIndex = 0
    /\ currentHorizonIndex = 0
    /\ calls = [c \in Callers |-> NoCall]
    /\ lastSuccess = [t \in ClientTypes |-> -1]

BackoffNext ==
    \/ \E t \in ClientTypes : executeWithRetry("c1", t)
    \/ OperationResolves("c1")
    \/ OperationRejects("c1")
    \/ TimeoutFires("c1")
    \/ SleepEnds("c1")

BackoffSpec == BackoffInit /\ [][BackoffNext]_vars

\* The wrapper used by one caller at a time, with its timers: the setTimeout
\* of withTimeout and that of sleep fire once set, while nothing makes an
\* operation settle.
TimersFire == WF_vars(TimeoutFires("c1")) /\ WF_vars(SleepEnds("c1"))

TerminationSpec == BackoffInit /\ [][BackoffNext]_vars /\ TimersFire

\* The wrapper used by one caller at a time, on operations that go on after
\* their timeout and settle later.
AbandonInit ==
    /\ abandoned = [settles |-> TRUE, ops |-> <<>>]
    /\ HospitalInit
    /\ hospitalConfig.circuitBreakerThreshold = 1
    /\ \E n \in 0..MaxBackoffPool, k \in 0..MaxHorizonPool :
           passedIn = [rpc |-> EndpointList("rpc", n),
                       horizon |-> EndpointList("horizon", k)]
    /\ rpcEndpoints = SortByPriority(passedIn.rpc)
    /\ horizonEndpoints = SortByPriority(passedIn.horizon)
    /\ \E m \in 1..MaxRetries :
           retryConfig = [maxRetries |-> m, retryDelay |-> DefaultRetryDelay]
    /\ currentRpcIndex = 0
    /\ currentHorizonIndex = 0
    /\ calls = [c \in Callers |-> NoCall]
    /\ lastSuccess = [t \in ClientTypes |-> -1]

AbandonNext ==
    \/ \E t \in ClientTypes : executeWithRetry("c1", t)
    \/ OperationResolves("c1")
    \/ OperationRejects("c1")
    \/ TimeoutFires("c1")
    \/ SleepEnds("c1")
    \/ \E k \in 1..MaxAbandoned, o \in {"resolves", "rejects"} : AbandonedSettles(k, o)

AbandonSpec == AbandonInit /\ [][AbandonNext]_vars

\* The wrapper constructed on endpoint lists in every order, used by one
\* caller at a time.  A horizon list of n endpoints has every order of
\* priorities, ties included, with the values 0..n.
SortInit ==
    /\ abandoned = [settles |-> FALSE, ops |-> <<>>]
    /\ HospitalInit
    /\ hospitalConfig.circuitBreakerThreshold = 1
    /\ passedIn \in [rpc : GivenLists("rpc", MaxSortLen, MaxPriority),
                      horizon : GivenLists("horizon", MaxHorizonPool, MaxHorizonPool)]
    /\ rpcEndpoints = SortByPriority(passedIn.rpc)
    /\ horizonEndpoints = SortByPriority(passedIn.horizon)
    /\ retryConfig = [maxRetries |-> 2, retryDelay |-> DefaultRetryDelay]
    /\ currentRpcIndex = 0
    /\ currentHorizonIndex = 0
    /\ calls = [c \in Callers |-> NoCall]
    /\ lastSuccess = [t \in ClientTypes |-> -1]

SortSpec == SortInit /\ [][BackoffNext]_vars

\* The service used by one caller at a time, with up to the default number
\* of retries (HOSPITAL_MAX_RETRIES, 3).
RetryInit ==
    /\ RpcInit
    /\ Len(rpcEndpoints) = 1
    /\ Len(horizonEndpoints) = 1
    /\ retryConfig.maxRetries = 1
    /\ circuitBreakers = [h \in Hospitals |-> NoEntry]
    /\ \E t \in 1..MaxThreshold, m \in 0..MaxHospitalRetries :
           hospitalConfig = [maxRetries |-> m,
                             retryDelay |-> HospitalRetryDelay,
                             circuitBreakerThreshold |-> t,
                             circuitBreakerTimeout |-> CoolDownTicks]
    /\ now = 1
    /\ requests = [c \in Callers |-> NoRequest]
    /\ consecutiveFailures = [h \in Hospitals |-> 0]

RetryNext ==
    \/ \E h \in Hospitals : makeRequest("c1", h)
    \/ HttpResponds("c1")
    \/ \E e \in HttpErrors : HttpFails("c1", e)
    \/ RetryTimerFires("c1")
    \/ Tick

RetrySpec == RetryInit /\ [][RetryNext]_vars

\* The service alone: the wrapper is constructed with one configuration and
\* never called.
BreakerInit ==
    /\ HospitalInit
    /\ RpcInit
    /\ Len(rpcEndpoints) = 1
    /\ Len(horizonEndpoints) = 1
    /\ retryConfig.maxRetries = 1

BreakerNext ==
    \/ \E c \in Callers, h \in Hospitals : makeRequest(c, h)
    \/ \E c \in Callers : HttpResponds(c)
    \/ \E c \in Callers, e \in HttpErrors : HttpFails(c, e)
    \/ \E c \in Callers : RetryTimerFires(c)
    \/ \E h \in Hospitals : getCircuitBreakerStatus(h)
    \/ \E h \in Hospitals : resetCircuitBreaker(h)
    \/ Tick

BreakerSpec == BreakerInit /\ [][BreakerNext]_vars

\* The service while time advances and each caller that has no request in
\* flight makes another one.
CallsKeepArriving ==
    /\ WF_vars(Tick)
    /\ \A c \in Callers : WF_vars(\E h \in Hospitals : makeRequest(c, h))

BreakerLiveSpec == BreakerInit /\ [][BreakerNext]_vars /\ CallsKeepArriving

\* ---------------------------------------------------------------- claims
PoolSize(c) == Len(Endpoints(calls[c].clientType))
Last(s) == s[Len(s)]

\* The number of endpoints visited before the one of the last invocation.
EndpointsBefore(invoked) == Cardinality({invoked[k] : k \in 1..Len(invoked)}) - 1

\* The number of invocations on the endpoint of the last invocation.
AttemptsOnLast(invoked) ==
    Cardinality({k \in 1..Len(invoked) : invoked[k] = Last(invoked)})

\* A step in which caller c starts an executeWithRetry call.
CallStarts(c) ==
    /\ calls[c].pc \in {"idle", "returned", "thrown"}
    /\ calls'[c].pc \in {"awaiting", "thrown"}
    /\ calls'[c] # calls[c]

\* A step in which an attempt of caller c's call succeeds.
CallSucceeds(c) == calls[c].pc = "awaiting" /\ calls'[c].pc = "returned"

\* C1: on a non-empty pool of N endpoints with maxRetries = M >= 1, a call
\* never invokes the operation more than N*M times, and it fails (with the
\* 'All ... RPC endpoints failed' error) only after exactly N*M invocations,
\* all of which failed.
C1_ExhaustionAfterAllAttempts ==
    \A c \in Callers :
        LET r == calls[c]
            n == PoolSize(c)
            m == retryConfig.maxRetries
        IN  /\ r.pc # "idle" /\ n > 0 => Len(r.invoked) <= n * m
            /\ r.pc = "thrown" /\ n > 0 =>
                  r.result = "AllFailed" /\ Len(r.invoked) = n * m
            /\ r.result = "AllFailed" => n > 0 /\ r.pc = "thrown"
            \* every attempt made has failed and none is left: the call is over
            /\ (n > 0 /\ Len(r.invoked) = n * m /\ r.pc \notin {"awaiting", "returned"})
                  => r.pc = "thrown"

C1_Witness ==
    \E c \in Callers :
        /\ calls[c].result = "AllFailed"
        /\ PoolSize(c) = 3
        /\ retryConfig.maxRetries = 2
        /\ Len(calls[c].invoked) = 6

\* The k-th invocation of a call that read cursor value start, on a pool of n
\* endpoints with m attempts per endpoint.
ExpectedEndpoint(start, k, n, m) == (start + ((k - 1) \div m)) % n

C2_Order ==
    \A c \in Callers :
        LET r == calls[c]
            n == PoolSize(c)
            m == retryConfig.maxRetries
        IN  n > 0 =>
              /\ \A k \in 1..Len(r.invoked) :
                    r.invoked[k] = ExpectedEndpoint(r.currentIndex, k, n, m)
              \* attempts on one endpoint are consecutive: no endpoint comes back
              /\ \A k, l \in 1..Len(r.invoked) :
                    (k < l /\ r.invoked[k] = r.invoked[l]) =>
                        \A j \in k..l : r.invoked[j] = r.invoked[k]

\* C2: a call reads the sticky index c of its client type when it starts, and
\* its k-th invocation is on endpoint (c + (k-1) div M) mod N: it starts at the
\* cursor, the attempts on one endpoint are consecutive, and no endpoint is
\* visited a second time.
C2_AttemptsFollowCursorOnce ==
    /\ []C2_Order
    /\ [][\A c \in Callers :
             CallStarts(c) =>
                 calls'[c].currentIndex = CurrentIndex(calls'[c].clientType)]_vars

C2_Witness ==
    \E c \in Callers :
        /\ calls[c].currentIndex = 1
        /\ PoolSize(c) = 3
        /\ retryConfig.maxRetries = 2
        /\ calls[c].invoked = <<1, 1, 2, 2, 0, 0>>

\* C3: a successful attempt on pool index e sets the sticky index of the
\* call's client type to e, and a call that starts when the most recent
\* success of its client type was on e makes its first attempt on e.
C3_SuccessMovesCursor ==
    [][\A c \in Callers :
          /\ CallSucceeds(c) =>
                CurrentIndex(calls[c].clientType)' = Last(calls[c].invoked)
          /\ (CallStarts(c) /\ lastSuccess[calls'[c].clientType] # -1) =>
                /\ Len(calls'[c].invoked) = 1
                /\ calls'[c].invoked[1] = lastSuccess[calls'[c].clientType]]_vars

C3_Witness ==
    \E c \in Callers :
        /\ calls[c].pc = "awaiting"
        /\ calls[c].invoked = <<2>>
        /\ lastSuccess[calls[c].clientType] = 2

C4_Count ==
    \A c \in Callers :
        LET r == calls[c] IN
        r.pc = "returned" =>
            /\ Len(r.invoked) =
                  EndpointsBefore(r.invoked) * retryConfig.maxRetries
                      + AttemptsOnLast(r.invoked)
            /\ AttemptsOnLast(r.invoked) \in 1..retryConfig.maxRetries
            /\ r.attemptCount = Len(r.invoked)
            \* a first-try success is one invocation
            /\ (EndpointsBefore(r.invoked) = 0 /\ AttemptsOnLast(r.invoked) = 1)
                  => Len(r.invoked) = 1

\* C4: a call whose first success is the k-th attempt on the j-th endpoint
\* visited has invoked the operation j*M + k times, and invokes it no more
\* once it has returned; with 3 endpoints, M = 2, cursor 0 and the first
\* success on endpoint 2 at its first attempt, that is 5 invocations, and the
\* success leaves the cursor at 2.
C4_InvocationsUntilSuccess ==
    /\ []C4_Count
    /\ [][\A c \in Callers :
             /\ (calls[c].pc = "returned" /\ ~CallStarts(c)) => calls'[c] = calls[c]
             /\ ( /\ CallSucceeds(c)
                  /\ calls[c].clientType = "rpc"
                  /\ PoolSize(c) = 3
                  /\ retryConfig.maxRetries = 2
                  /\ calls[c].currentIndex = 0
                  /\ calls[c].endpointIndex = 2
                  /\ calls[c].retry = 0 ) =>
                    /\ Len(calls'[c].invoked) = 5
                    /\ currentRpcIndex' = 2]_vars

C4_Witness ==
    \E c \in Callers :
        /\ calls[c].pc = "returned"
        /\ retryConfig.maxRetries = 2
        /\ calls[c].invoked = <<0, 0, 1, 1, 2>>
        /\ currentRpcIndex = 2

\* A step in which caller c makes a guarded call (makeRequest).
GuardedCallStarts(c) ==
    /\ requests[c].pc \in {"idle", "done", "failed"}
    /\ requests'[c].pc \in {"http", "failed"}
    /\ requests'[c] # requests[c]

\* A step in which caller c's guarded call fails: the error has passed the
\* retries and reached catchError.
GuardedCallFails(c) == requests[c].pc = "http" /\ requests'[c].pc = "failed"

\* A step in which caller c's guarded call succeeds.
GuardedCallSucceeds(c) == requests[c].pc = "http" /\ requests'[c].pc = "done"

Threshold == hospitalConfig.circuitBreakerThreshold
CoolDown == hospitalConfig.circuitBreakerTimeout

\* C5: a CLOSED breaker with threshold T opens on exactly the T-th consecutive
\* failed guarded call (a guarded call counts once, whatever retries it made):
\* a failure in CLOSED leaves it CLOSED or OPEN, and OPEN exactly when it is
\* the T-th in a row; a CLOSED breaker has seen fewer than T in a row.
C5_OpensOnThresholdFailure ==
    /\ [](\A h \in Hospitals :
             circuitBreakers[h].state = "CLOSED" => consecutiveFailures[h] < Threshold)
    /\ [][\A c \in Callers :
             LET h == requests[c].hospitalId IN
             (GuardedCallFails(c) /\ circuitBreakers[h].state = "CLOSED") =>
                 /\ circuitBreakers'[h].state \in {"CLOSED", "OPEN"}
                 /\ circuitBreakers'[h].state = "OPEN"
                       <=> consecutiveFailures'[h] = Threshold]_vars

C5_Witness ==
    \E c \in Callers, h \in Hospitals :
        /\ Threshold = 3
        /\ circuitBreakers[h].state = "OPEN"
        /\ consecutiveFailures[h] = 3
        /\ now = 1
        /\ requests[c].pc = "failed"
        /\ requests[c].httpCalls = hospitalConfig.maxRetries + 1

\* C6: a guarded call made while the breaker is OPEN and
\* now - lastFailureTime < circuitBreakerTimeout fails with the circuit-open
\* error, sends no HTTP request and leaves the breaker's entry as it was.
C6_OpenRejectsWithoutCalling ==
    [][\A c \in Callers :
          LET h == requests'[c].hospitalId
              b == circuitBreakers[h]
          IN  ( /\ GuardedCallStarts(c)
                /\ b.state = "OPEN"
                /\ now - b.lastFailureTime < CoolDown ) =>
                  /\ requests'[c].pc = "failed"
                  /\ requests'[c].result = "CircuitOpen"
                  /\ requests'[c].httpCalls = 0
                  /\ circuitBreakers'[h] = b]_vars

C6_Witness ==
    \E c \in Callers :
        LET b == circuitBreakers[requests[c].hospitalId] IN
        /\ requests[c].result = "CircuitOpen"
        /\ requests[c].httpCalls = 0
        /\ b.state = "OPEN"
        /\ now - b.lastFailureTime = CoolDown - 1
        /\ CoolDown > 1

\* C7 as claimed: a guarded call made while the breaker is OPEN and
\* now - lastFailureTime >= circuitBreakerTimeout (equality included) is let
\* through: the breaker becomes HALF_OPEN with failures 0 and the HTTP
\* request is sent.
C7_AdmittedFromEquality ==
    [][\A c \in Callers :
          LET h == requests'[c].hospitalId
              b == circuitBreakers[h]
          IN  ( /\ GuardedCallStarts(c)
                /\ b.state = "OPEN"
                /\ now - b.lastFailureTime >= CoolDown ) =>
                  /\ requests'[c].pc = "http"
                  /\ requests'[c].httpCalls = 1
                  /\ circuitBreakers'[h].state = "HALF_OPEN"
                  /\ circuitBreakers'[h].failures = 0]_vars

\* C7 amended: a guarded call made while the breaker is OPEN and
\* now - lastFailureTime > circuitBreakerTimeout (strictly) is let through:
\* the breaker becomes HALF_OPEN with failures 0 and the HTTP request is
\* sent; at now - lastFailureTime = circuitBreakerTimeout the call is still
\* rejected and the breaker stays OPEN.
C7_AdmittedAfterCoolDown ==
    [][\A c \in Callers :
          LET h == requests'[c].hospitalId
              b == circuitBreakers[h]
          IN  /\ ( /\ GuardedCallStarts(c)
                   /\ b.state = "OPEN"
                   /\ now - b.lastFailureTime > CoolDown ) =>
                     /\ requests'[c].pc = "http"
                     /\ requests'[c].httpCalls = 1
                     /\ circuitBreakers'[h].state = "HALF_OPEN"
                     /\ circuitBreakers'[h].failures = 0
              /\ ( /\ GuardedCallStarts(c)
                   /\ b.state = "OPEN"
                   /\ now - b.lastFailureTime = CoolDown ) =>
                     /\ requests'[c].result = "CircuitOpen"
                     /\ circuitBreakers'[h].state = "OPEN"]_vars

C7_Witness ==
    \E c \in Callers :
        LET b == circuitBreakers[requests[c].hospitalId] IN
        /\ requests[c].pc = "http"
        /\ requests[c].admitted = "HALF_OPEN"
        /\ requests[c].httpCalls = 1
        /\ b.state = "HALF_OPEN"
        /\ b.failures = 0
        /\ now - b.lastFailureTime = CoolDown + 1

\* C8 as claimed: a guarded call that fails while the breaker is HALF_OPEN
\* moves it to OPEN at once, whatever the threshold.
C8_HalfOpenFailureOpens ==
    [][\A c \in Callers :
          LET h == requests[c].hospitalId IN
          (GuardedCallFails(c) /\ circuitBreakers[h].state = "HALF_OPEN") =>
              circuitBreakers'[h].state = "OPEN"]_vars

\* C9: a guarded call that succeeds while the breaker is HALF_OPEN leaves it
\* CLOSED with failures 0, and a guarded call made while it is CLOSED is let
\* through.
C9_HalfOpenSuccessCloses ==
    [][\A c \in Callers :
          /\ LET h == requests[c].hospitalId IN
             (GuardedCallSucceeds(c) /\ circuitBreakers[h].state = "HALF_OPEN") =>
                 /\ circuitBreakers'[h].state = "CLOSED"
                 /\ circuitBreakers'[h].failures = 0
          /\ LET h == requests'[c].hospitalId IN
             (GuardedCallStarts(c) /\ circuitBreakers[h].state = "CLOSED") =>
                 /\ requests'[c].pc = "http"
                 /\ requests'[c].httpCalls = 1]_vars

C9_Witness ==
    \E c \in Callers :
        LET b == circuitBreakers[requests[c].hospitalId] IN
        /\ requests[c].pc = "done"
        /\ requests[c].admitted = "HALF_OPEN"
        /\ b.state = "CLOSED"
        /\ b.failures = 0
        /\ b.lastFailureTime > 0

\* C10: resetCircuitBreaker leaves the hospital's entry CLOSED with failures
\* 0 whatever it was before (or when there was none), and checkCircuitBreaker
\* lets a call through on that entry at every time.
C10_ResetForcesClosed ==
    [][\A h \in Hospitals :
          resetCircuitBreaker(h) =>
              /\ circuitBreakers'[h].state = "CLOSED"
              /\ circuitBreakers'[h].failures = 0
              /\ \A t \in 0..MaxTime :
                    ~checkCircuitBreaker(circuitBreakers'[h], t).throws]_vars

\* The entry is the one a reset stores (an entry that has failed keeps its
\* lastFailureTime), and a call was rejected before: the reset found it OPEN.
C10_Witness ==
    \E c \in Callers :
        /\ requests[c].result = "CircuitOpen"
        /\ circuitBreakers[requests[c].hospitalId] = ClosedBreaker

\* The attempts of a call that have failed so far.
FailedAttempts(r) ==
    IF r.pc \in {"awaiting", "returned"} THEN Len(r.invoked) - 1 ELSE Len(r.invoked)

\* The sleeps after f failed attempts under the rule of the claim: the k-th
\* attempt of the call has retry index (k - 1) % m on its endpoint, and is
\* followed by a sleep of d * 2^index unless it is the endpoint's last.
RECURSIVE ExpectedSleeps(_, _, _)
ExpectedSleeps(f, m, d) ==
    IF f = 0 THEN <<>>
    ELSE ExpectedSleeps(f - 1, m, d) \o
         (IF (f - 1) % m < m - 1 THEN <<d * 2^((f - 1) % m)>> ELSE <<>>)

\* C11: after a failed attempt with retry index r on an endpoint the call
\* sleeps exactly retryDelay * 2^r when r < M - 1 and not at all when
\* r = M - 1 (M = 3, retryDelay = 1000: 1000, then 2000, then nothing); the
\* backoff restarts at retryDelay on each endpoint, and there is no sleep
\* between the last attempt on one endpoint and the first on the next, nor
\* before the final error.
C11_BackoffSchedule ==
    \A c \in Callers :
        LET r == calls[c]
            m == retryConfig.maxRetries
            d == retryConfig.retryDelay
            f == FailedAttempts(r)
        IN  /\ r.slept = ExpectedSleeps(f, m, d)
            /\ r.pc = "sleeping" => r.retry < m - 1
            /\ (m = 3 /\ d = 1000 /\ f >= 3) => SubSeq(r.slept, 1, 2) = <<1000, 2000>>
            /\ (m = 3 /\ d = 1000 /\ f = 3) => r.slept = <<1000, 2000>>
            /\ (r.result = "AllFailed" /\ m = 3 /\ d = 1000 /\ PoolSize(c) = 2)
                   => r.slept = <<1000, 2000, 1000, 2000>>

\* A call on two endpoints with M = 3 has failed over and been exhausted; a
\* call with M = 4 has slept three times on one endpoint.
C11_Witness ==
    /\ retryConfig.maxRetries = 3
    /\ calls["c1"].result = "AllFailed"
    /\ Len(calls["c1"].invoked) = 6
    /\ calls["c1"].slept = <<1000, 2000, 1000, 2000>>

\* A step in which the attempt caller c's call is waiting for fails, by a
\* rejection of the operation or by the timer of withTimeout.
AttemptFails(c) ==
    /\ calls[c].pc = "awaiting"
    /\ calls'[c] # calls[c]
    /\ calls'[c].pc # "returned"

\* What a failed attempt does to the call, whatever made it fail: it has used
\* up retry index r.retry of its endpoint; the call sleeps the backoff of that
\* index, or moves to the next endpoint, or throws after the last one.
AfterFailedAttempt(r, q, n, m, d) ==
    /\ q.attemptCount = r.attemptCount
           + (IF q.pc = "awaiting" THEN 1 ELSE 0)
    /\ IF r.retry < m - 1
       THEN /\ q.pc = "sleeping"
            /\ q.slept = Append(r.slept, d * 2^(r.retry))
            /\ q.invoked = r.invoked
            /\ q.retry = r.retry /\ q.i = r.i
       ELSE IF r.i < n - 1
       THEN /\ q.pc = "awaiting"
            /\ q.invoked = Append(r.invoked, (r.currentIndex + r.i + 1) % n)
            /\ q.slept = r.slept
            /\ q.retry = 0 /\ q.i = r.i + 1
       ELSE /\ q.pc = "thrown"
            /\ q.invoked = r.invoked
            /\ q.slept = r.slept
            /\ q.error = [name |-> "AllFailed", detail |-> q.lastOutcome]

\* C12: an attempt that times out is treated exactly like an attempt that
\* throws: it uses up one of the M attempts on its endpoint, is followed by
\* the same backoff and failover, and its timeout error reaches the caller
\* only when every later attempt of the call has failed too (it is the error
\* of the last attempt of an exhausted call).
C12_TimeoutIsAFailedAttempt ==
    /\ [][\A c \in Callers :
            AttemptFails(c) =>
                /\ calls'[c].lastOutcome \in {"error", "timeout"}
                /\ AfterFailedAttempt(calls[c], calls'[c], PoolSize(c),
                                      retryConfig.maxRetries, retryConfig.retryDelay)
                /\ UNCHANGED <<currentRpcIndex, currentHorizonIndex>>]_vars
    /\ [](\A c \in Callers :
            /\ calls[c].pc = "returned" => calls[c].error = NoError
            /\ calls[c].error.detail = "timeout" =>
                   /\ calls[c].pc = "thrown"
                   /\ calls[c].lastOutcome = "timeout"
                   /\ Len(calls[c].invoked) = PoolSize(c) * retryConfig.maxRetries)

\* One call has returned from its second endpoint after three timeouts and
\* one backoff, the timeout not reaching its caller; another call has been
\* exhausted by timeouts, the last of which its error carries.
C12_Witness ==
    /\ retryConfig.maxRetries = 2
    /\ calls["c1"].pc = "returned"
    /\ calls["c1"].lastError = "timeout"
    /\ calls["c1"].invoked = <<0, 0, 1>>
    /\ calls["c1"].slept = <<1000>>
    /\ calls["c2"].pc = "thrown"
    /\ calls["c2"].error = [name |-> "AllFailed", detail |-> "timeout"]

\* C13: a call for a client type whose pool is empty throws the 'No ...
\* endpoints configured' error before any attempt: the operation is not
\* invoked, the call does not sleep, and both sticky indexes keep their values.
C13_NoEndpointsFailsAtOnce ==
    [][\A c \in Callers :
         (CallStarts(c) /\ Len(Endpoints(calls'[c].clientType)) = 0) =>
             /\ calls'[c].pc = "thrown"
             /\ calls'[c].result = "NoEndpoints"
             /\ calls'[c].error = [name |-> "NoEndpoints",
                                   detail |-> calls'[c].clientType]
             /\ calls'[c].invoked = <<>>
             /\ calls'[c].attemptCount = 0
             /\ calls'[c].slept = <<>>
             /\ currentRpcIndex' = currentRpcIndex
             /\ currentHorizonIndex' = currentHorizonIndex]_vars

\* A horizon call has failed on the empty horizon pool after an rpc call had
\* moved the rpc index to 2.
C13_Witness ==
    /\ horizonEndpoints = <<>>
    /\ calls["c1"].clientType = "horizon"
    /\ calls["c1"].result = "NoEndpoints"
    /\ calls["c1"].invoked = <<>>
    /\ currentRpcIndex = 2
    /\ currentHorizonIndex = 0

\* C14 as stated: the error of an exhausted call carries the error of the
\* last attempt (the M-th attempt on the last endpoint visited) and a total
\* attempt count equal to N * M.
C14_ErrorCarriesLastErrorAndCount ==
    \A c \in Callers :
        calls[c].result = "AllFailed" =>
            /\ calls[c].error.detail = calls[c].lastOutcome
            /\ "totalAttempts" \in DOMAIN calls[c].error
            /\ calls[c].error.totalAttempts = PoolSize(c) * retryConfig.maxRetries

\* C14, amended: the error of an exhausted call is an Error whose message
\* holds the message of the error of the last attempt (the M-th attempt on
\* the last endpoint visited) and nothing else of the call; the total attempt
\* count, equal to N * M, is written to the CRITICAL log line and is not
\* carried by the error.
C14_ErrorCarriesLastMessage ==
    \A c \in Callers :
        /\ calls[c].result = "AllFailed" =>
            /\ calls[c].lastOutcome \in {"error", "timeout"}
            /\ calls[c].error = [name |-> "AllFailed", detail |-> calls[c].lastOutcome]
            /\ Last(calls[c].invoked) =
                   (calls[c].currentIndex + PoolSize(c) - 1) % PoolSize(c)
            /\ AttemptsOnLast(calls[c].invoked) = retryConfig.maxRetries
            /\ calls[c].criticalLog = PoolSize(c) * retryConfig.maxRetries
            /\ calls[c].attemptCount = PoolSize(c) * retryConfig.maxRetries
        /\ calls[c].result # "AllFailed" => calls[c].criticalLog = 0

\* A call on three endpoints with M = 2 is exhausted after six attempts, the
\* last of which timed out after earlier ones had thrown.
C14_Witness ==
    /\ calls["c1"].result = "AllFailed"
    /\ calls["c1"].criticalLog = 6
    /\ calls["c1"].error = [name |-> "AllFailed", detail |-> "timeout"]
    /\ calls["c2"].result = "AllFailed"
    /\ calls["c2"].error = [name |-> "AllFailed", detail |-> "error"]

\* C15: every successful guarded call sets the failure count of its hospital
\* to 0, so failures separated by a success never add up: the count of a
\* CLOSED breaker is the number of failed calls since the last success, and a
\* CLOSED breaker opens only on a failure that completes threshold failed
\* calls with no successful call between them.
C15_SuccessResetsCount ==
    /\ [](\A h \in Hospitals :
             circuitBreakers[h].state = "CLOSED" =>
                 circuitBreakers[h].failures = consecutiveFailures[h])
    /\ [][\A c \in Callers :
             GuardedCallSucceeds(c) =>
                 circuitBreakers'[requests[c].hospitalId].failures = 0]_vars
    /\ [][\A h \in Hospitals :
             (circuitBreakers[h].state = "CLOSED" /\ circuitBreakers'[h].state = "OPEN") =>
                 /\ \E c \in Callers : GuardedCallFails(c) /\ requests[c].hospitalId = h
                 /\ consecutiveFailures[h] = Threshold - 1
                 /\ consecutiveFailures'[h] = Threshold]_vars

\* With threshold 3 and no time passed (so the breaker was never HALF_OPEN):
\* a CLOSED breaker that has recorded a failure has a count of 0 again after
\* a successful call.
C15_Witness ==
    /\ Threshold = 3
    /\ now = 1
    /\ circuitBreakers["hospital-1"].state = "CLOSED"
    /\ circuitBreakers["hospital-1"].failures = 0
    /\ circuitBreakers["hospital-1"].lastFailureTime = 1
    /\ requests["c1"].pc = "failed"
    /\ requests["c1"].httpCalls > 0
    /\ requests["c2"].pc = "done"

\* Caller d's guarded call was let through as the probe of hospital h and has
\* not finished.
ProbeInFlight(d, h) ==
    /\ requests[d].pc \in {"http", "backoff"}
    /\ requests[d].hospitalId = h
    /\ requests[d].admitted = "HALF_OPEN"

\* C16: after the cool-down of an OPEN breaker exactly one guarded call is let
\* through as the probe: a guarded call that starts while the breaker is
\* HALF_OPEN and the probe of its hospital is in flight does not invoke its
\* operation.
C16_SingleProbe ==
    [][\A c \in Callers :
         LET h == requests'[c].hospitalId IN
         (/\ GuardedCallStarts(c)
          /\ circuitBreakers[h].state = "HALF_OPEN"
          /\ \E d \in Callers \ {c} : ProbeInFlight(d, h)) =>
             requests'[c].httpCalls = 0]_vars

\* C17 as stated: for each client type, in every reachable state and for
\* every pool, the sticky index satisfies 0 <= index < length of the pool.
C17_CursorInsidePool ==
    \A t \in ClientTypes :
        0 <= CurrentIndex(t) /\ CurrentIndex(t) < Len(Endpoints(t))

\* C17, amended: for each client type whose pool is not empty, in every
\* reachable state, 0 <= index < length of the pool; the index of an empty
\* pool is 0, which is the length of the pool and no position of it.
C17_CursorInsideNonEmptyPool ==
    \A t \in ClientTypes :
        /\ 0 <= CurrentIndex(t)
        /\ Len(Endpoints(t)) > 0 => CurrentIndex(t) < Len(Endpoints(t))
        /\ Len(Endpoints(t)) = 0 => CurrentIndex(t) = 0

\* The rpc index is at the last position of a pool of three while a call
\* that started there has wrapped around to position 0; the horizon pool is
\* empty, its index 0.
C17_Witness ==
    /\ Len(rpcEndpoints) = 3
    /\ currentRpcIndex = 2
    /\ calls["c1"].pc = "awaiting"
    /\ calls["c1"].clientType = "rpc"
    /\ calls["c1"].currentIndex = 2
    /\ calls["c1"].endpointIndex = 0
    /\ horizonEndpoints = <<>>
    /\ calls["c2"].result = "NoEndpoints"
    /\ currentHorizonIndex = 0

\* C18: the sticky index of a client type is written only by a successful
\* attempt of a call of that type, which stores its endpoint's index: starting
\* a call, a failed attempt (failing over included), the end of a sleep and
\* the final throw leave both indexes alone; so a call that ends in failure
\* (exhaustion or no endpoints) with no other call running finds the index of
\* its type as it read it at its start.
C18_CursorWrittenOnlyBySuccess ==
    /\ [][/\ currentRpcIndex' # currentRpcIndex =>
               \E c \in Callers : /\ CallSucceeds(c)
                                  /\ calls[c].clientType = "rpc"
                                  /\ currentRpcIndex' = calls[c].endpointIndex
          /\ currentHorizonIndex' # currentHorizonIndex =>
               \E c \in Callers : /\ CallSucceeds(c)
                                  /\ calls[c].clientType = "horizon"
                                  /\ currentHorizonIndex' = calls[c].endpointIndex
          /\ \A c \in Callers :
               (calls'[c] # calls[c] /\ ~CallSucceeds(c)) =>
                   UNCHANGED <<currentRpcIndex, currentHorizonIndex>>]_vars
    /\ [](\A c \in Callers :
            (/\ calls[c].pc = "thrown"
             /\ \A d \in Callers \ {c} : calls[d].pc = "idle") =>
                CurrentIndex(calls[c].clientType) = calls[c].currentIndex)

\* A call that started at index 1 of a pool of three has failed over twice
\* and been exhausted; the index is still 1.
C18_Witness ==
    /\ Len(rpcEndpoints) = 3
    /\ calls["c1"].result = "AllFailed"
    /\ calls["c1"].clientType = "rpc"
    /\ calls["c1"].currentIndex = 1
    /\ Last(calls["c1"].invoked) = 0
    /\ currentRpcIndex = 1
    /\ calls["c2"].pc = "idle"

\* C19: the move from OPEN to HALF_OPEN is lazy. A step in which time passes
\* changes no breaker; a status read of an OPEN breaker returns the entry as
\* it is (OPEN, with its count), the cool-down elapsed or not, and leaves it
\* so; a breaker goes from OPEN to HALF_OPEN only in the step that starts a
\* guarded call for it after the cool-down.
C19_LazyHalfOpen ==
    /\ [][now' # now => circuitBreakers' = circuitBreakers]_vars
    /\ [](\A h \in Hospitals :
            circuitBreakers[h].state = "OPEN" =>
                /\ CircuitBreakerStatus(circuitBreakers, h) = circuitBreakers[h]
                /\ CircuitBreakerStatus(circuitBreakers, h).state = "OPEN")
    /\ [][\A h \in Hospitals :
            (circuitBreakers[h].state = "OPEN" /\ circuitBreakers'[h].state = "HALF_OPEN") =>
                /\ now - circuitBreakers[h].lastFailureTime > CoolDown
                /\ now' = now
                /\ \E c \in Callers : /\ GuardedCallStarts(c)
                                      /\ requests'[c].hospitalId = h
                                      /\ requests'[c].httpCalls = 1]_vars

\* The cool-down of a breaker opened by two failed calls is over by two
\* ticks, no guarded call has been made since: it is OPEN with a count of 2.
C19_Witness ==
    /\ Threshold = 2
    /\ circuitBreakers["hospital-1"].state = "OPEN"
    /\ circuitBreakers["hospital-1"].failures = 2
    /\ circuitBreakers["hospital-1"].lastFailureTime = 1
    /\ now = 1 + CoolDown + 2
    /\ \A c \in Callers : requests[c].pc = "failed" /\ requests[c].httpCalls > 0

PriorityAt(clientType, k) == Endpoints(clientType)[k + 1].priority

\* C21: the first attempt of every call goes to the primary endpoint, the one
\* with the lowest priority number of its pool, and the endpoints are then
\* tried in priority order, whatever earlier calls have done.
C21_StartsAtPrimary ==
    \A c \in Callers :
        LET r == calls[c]
            n == PoolSize(c)
        IN  Len(r.invoked) > 0 =>
              /\ \A k \in 0..(n - 1) :
                    PriorityAt(r.clientType, r.invoked[1]) <= PriorityAt(r.clientType, k)
              /\ \A k \in 1..(Len(r.invoked) - 1) :
                    PriorityAt(r.clientType, r.invoked[k])
                        <= PriorityAt(r.clientType, r.invoked[k + 1])

\* C22: hospital requests retry with exponential backoff: within one guarded
\* request the delay before the k-th retry is retryDelay * 2^(k - 1).
C22_HospitalBackoffDoubles ==
    \A c \in Callers :
        \A k \in 1..Len(requests[c].delays) :
            requests[c].delays[k] = hospitalConfig.retryDelay * 2^(k - 1)

\* The number of positions of s that hold e.
Occurrences(s, e) == Cardinality({k \in 1..Len(s) : s[k] = e})

\* s holds the elements of t, each as many times as t does.
IsPermutation(s, t) ==
    /\ Len(s) = Len(t)
    /\ \A k \in 1..Len(t) : Occurrences(s, t[k]) = Occurrences(t, t[k])

\* C23: for every order of the lists passed to the constructor, the endpoint
\* list of each client type reported by getEndpointsStatus is a permutation
\* of the list passed in, in ascending order of priority; the order is that
\* of construction in every later state: no step of executeWithRetry changes
\* it.
C23_SortedOnceAtConstruction ==
    /\ [](\A t \in ClientTypes :
            LET reported == getEndpointsStatus[t].endpoints IN
            /\ IsPermutation(reported, passedIn[t])
            /\ \A j, k \in 1..Len(reported) :
                   j < k => reported[j].priority <= reported[k].priority)
    /\ [][/\ rpcEndpoints' = rpcEndpoints
          /\ horizonEndpoints' = horizonEndpoints]_vars

\* The list of the unit test, priorities 2, 0, 1 in the order given, is
\* reported as urls 2, 3, 1 after a call has failed over and succeeded on the
\* last endpoint.
C23_Witness ==
    /\ Len(passedIn.rpc) = 3
    /\ passedIn.rpc[1].priority = 2
    /\ passedIn.rpc[2].priority = 0
    /\ passedIn.rpc[3].priority = 1
    /\ getEndpointsStatus.rpc.endpoints[1].url = 2
    /\ getEndpointsStatus.rpc.endpoints[2].url = 3
    /\ getEndpointsStatus.rpc.endpoints[3].url = 1
    /\ getEndpointsStatus.rpc.currentUrl = 1
    /\ calls["c1"].pc = "returned"
    /\ calls["c1"].invoked = <<0, 0, 1, 1, 2>>

\* C24: the rpc pool and the horizon pool are managed independently: no step
\* of a call of one type, whatever its outcome, changes the sticky index of
\* the other type or either endpoint list, and a call iterates from the
\* index of its own type as it was at its start, the other type's index
\* playing no part in the endpoints it visits.
C24_PoolsIndependent ==
    /\ [][\A c \in Callers :
            calls'[c] # calls[c] =>
                /\ calls'[c].clientType = "rpc" =>
                       currentHorizonIndex' = currentHorizonIndex
                /\ calls'[c].clientType = "horizon" =>
                       currentRpcIndex' = currentRpcIndex
                /\ rpcEndpoints' = rpcEndpoints
                /\ horizonEndpoints' = horizonEndpoints
                /\ CallStarts(c) =>
                       calls'[c].currentIndex =
                           IF calls'[c].clientType = "rpc"
                           THEN currentRpcIndex ELSE currentHorizonIndex]_vars
    /\ [](\A c \in Callers :
            \A k \in 1..Len(calls[c].invoked) :
                /\ calls[c].invoked[k] < PoolSize(c)
                /\ calls[c].invoked[k] =
                       (calls[c].currentIndex
                           + ((k - 1) \div retryConfig.maxRetries)) % PoolSize(c))

\* With the rpc index at 2, a horizon call started at index 0 and succeeded
\* there while an rpc call that started at 2 is running.
C24_Witness ==
    /\ currentRpcIndex = 2
    /\ currentHorizonIndex = 0
    /\ calls["c1"].clientType = "horizon"
    /\ calls["c1"].pc = "returned"
    /\ calls["c1"].invoked = <<0>>
    /\ calls["c2"].clientType = "rpc"
    /\ calls["c2"].pc = "awaiting"
    /\ calls["c2"].currentIndex = 2
    /\ Len(calls["c2"].invoked) > retryConfig.maxRetries

\* C25: under every interleaving of concurrent calls the sticky index is
\* last-writer-wins: the index of each type is 0 while no attempt of that
\* type has succeeded and otherwise the pool index of the successful attempt
\* completed most recently; a running call keeps the start index it read and
\* visits the endpoints that follow from it, whatever other calls write to
\* the index meanwhile.
C25_LastWriterWins ==
    /\ [](\A t \in ClientTypes :
            CurrentIndex(t) = IF lastSuccess[t] = -1 THEN 0 ELSE lastSuccess[t])
    /\ [](\A c \in Callers :
            LET r == calls[c] IN
            \A k \in 1..Len(r.invoked) :
                r.invoked[k] =
                    ExpectedEndpoint(r.currentIndex, k, PoolSize(c), retryConfig.maxRetries))
    /\ [][\A c \in Callers :
            /\ CallStarts(c) =>
                   calls'[c].currentIndex = CurrentIndex(calls'[c].clientType)
            /\ calls[c].pc \in {"awaiting", "sleeping"} =>
                   calls'[c].currentIndex = calls[c].currentIndex]_vars

\* Two rpc calls both started at index 0; one succeeded on endpoint 2, then
\* the other, still iterating from 0, succeeded on endpoint 1: the index is 1.
C25_Witness ==
    /\ retryConfig.maxRetries = 1
    /\ calls["c1"].clientType = "rpc" /\ calls["c2"].clientType = "rpc"
    /\ calls["c1"].pc = "returned" /\ calls["c2"].pc = "returned"
    /\ calls["c1"].currentIndex = 0 /\ calls["c2"].currentIndex = 0
    /\ calls["c1"].invoked = <<0, 1>>
    /\ calls["c2"].invoked = <<0, 1, 2>>
    /\ currentRpcIndex = 1

\* A step in which the attempt caller c's call is waiting for loses its race
\* against the timer.
AttemptTimesOut(c) == AttemptFails(c) /\ calls'[c].lastOutcome = "timeout"

\* A step in which an abandoned operation settles.
AbandonedOperationSettles == Len(abandoned'.ops) < Len(abandoned.ops)

\* C26: an invocation that lost its timeout race is abandoned, not cancelled.
\* The call goes on at once as after any failed attempt, the operation still
\* pending; when the operation settles later, with a value or an error, no
\* call changes (no result, no attempt counted) and no sticky index is
\* written; the attempts of a call are its own invocations, at most N * M.
C26_AbandonedOutcomeIgnored ==
    /\ [][\A c \in Callers :
            AttemptTimesOut(c) =>
                /\ abandoned'.ops =
                       Append(abandoned.ops,
                              [clientType |-> calls[c].clientType,
                               endpointIndex |-> calls[c].endpointIndex])
                /\ AfterFailedAttempt(calls[c], calls'[c], PoolSize(c),
                                      retryConfig.maxRetries, retryConfig.retryDelay)]_vars
    /\ [][AbandonedOperationSettles =>
            /\ calls' = calls
            /\ currentRpcIndex' = currentRpcIndex
            /\ currentHorizonIndex' = currentHorizonIndex
            /\ lastSuccess' = lastSuccess]_vars
    /\ [](\A c \in Callers :
            /\ calls[c].attemptCount = Len(calls[c].invoked)
            /\ Len(calls[c].invoked) <= PoolSize(c) * retryConfig.maxRetries
            /\ \A t \in ClientTypes :
                   CurrentIndex(t) = IF lastSuccess[t] = -1 THEN 0 ELSE lastSuccess[t])

\* A call whose attempt on endpoint 0 timed out has succeeded on endpoint 1;
\* the abandoned operation has settled since, and the index is still 1.
C26_Witness ==
    /\ abandoned.settles
    /\ abandoned.ops = <<>>
    /\ retryConfig.maxRetries = 1
    /\ calls["c1"].pc = "returned"
    /\ calls["c1"].lastError = "timeout"
    /\ calls["c1"].invoked = <<0, 1>>
    /\ calls["c1"].attemptCount = 2
    /\ currentRpcIndex = 1

\* C27: every call on a non-empty pool eventually returns or throws, even if
\* no operation ever settles, provided the timers of withTimeout and sleep
\* fire; it invokes the operation at most N * M times on the way.
C27_CallTerminates ==
    /\ \A c \in Callers :
          (calls[c].pc \in {"awaiting", "sleeping"})
              ~> (calls[c].pc \in {"returned", "thrown"})
    /\ [](\A c \in Callers :
            Len(calls[c].invoked) <= PoolSize(c) * retryConfig.maxRetries)

\* A call on two endpoints with M = 4 has ended after eight attempts, the
\* last of them cut off by the timer, and six sleeps.
C27_Witness ==
    /\ Len(rpcEndpoints) = 2
    /\ retryConfig.maxRetries = 4
    /\ calls["c1"].pc = "thrown"
    /\ calls["c1"].lastOutcome = "timeout"
    /\ Len(calls["c1"].invoked) = 8
    /\ Len(calls["c1"].slept) = 6

\* The callers whose guarded call for hospital h is in flight.
InFlight(h) ==
    {c \in Callers : requests[c].pc \in {"http", "backoff"} /\ requests[c].hospitalId = h}

C29_CountMatchesState ==
    \A h \in Hospitals :
        /\ circuitBreakers[h].state = "OPEN" => circuitBreakers[h].failures >= Threshold
        /\ circuitBreakers[h].state = "CLOSED" => circuitBreakers[h].failures < Threshold

\* C29, amended: a CLOSED breaker has a failure count below the threshold,
\* and a breaker has a count of at least the threshold as it enters OPEN; but
\* while it is OPEN the count can be lower: a call admitted before it opened
\* that succeeds sets the count to 0 and leaves the breaker OPEN, and the
\* count of an OPEN breaker goes down in no other way.
C29_CountMatchesStateOnEntry ==
    /\ [](\A h \in Hospitals :
            /\ circuitBreakers[h].state = "CLOSED" =>
                   circuitBreakers[h].failures < Threshold
            /\ circuitBreakers[h].state = "OPEN" =>
                   circuitBreakers[h].failures >= 0)
    /\ [][\A h \in Hospitals :
            (circuitBreakers[h].state # "OPEN" /\ circuitBreakers'[h].state = "OPEN") =>
                circuitBreakers'[h].failures >= Threshold]_vars
    /\ [][\A c \in Callers :
            LET h == requests[c].hospitalId IN
            (GuardedCallSucceeds(c) /\ circuitBreakers[h].state = "OPEN") =>
                /\ circuitBreakers'[h].state = "OPEN"
                /\ circuitBreakers'[h].failures = 0]_vars
    /\ [][\A h \in Hospitals :
            (/\ circuitBreakers[h].state = "OPEN"
             /\ circuitBreakers'[h].state = "OPEN"
             /\ circuitBreakers'[h].failures < circuitBreakers[h].failures) =>
                \E c \in Callers : GuardedCallSucceeds(c) /\ requests[c].hospitalId = h]_vars

\* With threshold 2, the breaker is OPEN with a count of 0: a call admitted
\* while it was CLOSED has succeeded after it opened.
C29_Witness ==
    /\ Threshold = 2
    /\ now = 1
    /\ circuitBreakers["hospital-1"].state = "OPEN"
    /\ circuitBreakers["hospital-1"].failures = 0
    /\ requests["c2"].pc = "done"
    /\ requests["c2"].admitted = "CLOSED"

\* C30 as stated: the lastFailureTime of a breaker that entered OPEN at time
\* t stays t until the breaker leaves OPEN, whatever calls admitted before
\* complete meanwhile (so that a call later than t + cool-down is admitted).
C30_OpeningTimeKept ==
    [][\A h \in Hospitals :
         (circuitBreakers[h].state = "OPEN" /\ circuitBreakers'[h].state = "OPEN") =>
             circuitBreakers'[h].lastFailureTime = circuitBreakers[h].lastFailureTime]_vars

\* C30, amended: the lastFailureTime of an OPEN breaker is the time of the
\* latest failed guarded call: a call admitted before the breaker opened that
\* fails while it is OPEN moves it to the time of that failure, one that
\* succeeds leaves it, and nothing else moves it while the breaker is OPEN; a
\* guarded call is admitted exactly when it is made later than the current
\* lastFailureTime + cool-down.
C30_CoolDownFromLatestFailure ==
    /\ [][\A c \in Callers :
            LET h == requests[c].hospitalId IN
            circuitBreakers[h].state = "OPEN" =>
                /\ GuardedCallFails(c) =>
                       /\ circuitBreakers'[h].lastFailureTime = now
                       /\ circuitBreakers'[h].state = "OPEN"
                /\ GuardedCallSucceeds(c) =>
                       circuitBreakers'[h].lastFailureTime =
                           circuitBreakers[h].lastFailureTime]_vars
    /\ [][\A h \in Hospitals :
            (/\ circuitBreakers[h].state = "OPEN"
             /\ circuitBreakers'[h].state = "OPEN"
             /\ circuitBreakers'[h].lastFailureTime # circuitBreakers[h].lastFailureTime) =>
                \E c \in Callers : GuardedCallFails(c) /\ requests[c].hospitalId = h]_vars
    /\ [][\A c \in Callers :
            LET h == requests'[c].hospitalId IN
            (GuardedCallStarts(c) /\ circuitBreakers[h].state = "OPEN") =>
                (requests'[c].httpCalls = 1
                    <=> now > circuitBreakers[h].lastFailureTime + CoolDown)]_vars

\* With threshold 1: the breaker was opened by one failure, a call admitted
\* before failed at time 3 while it was OPEN, and a call made at time 4 or
\* earlier was rejected; the cool-down now runs from 3.
C30_Witness ==
    /\ Threshold = 1
    /\ now = 4
    /\ circuitBreakers["hospital-1"].state = "OPEN"
    /\ circuitBreakers["hospital-1"].lastFailureTime = 3
    /\ consecutiveFailures["hospital-1"] = 2
    /\ requests["c1"].result = "CircuitOpen"
    /\ requests["c2"].pc = "failed"
    /\ requests["c2"].admitted = "CLOSED"
    /\ requests["c2"].httpCalls > 0

====
